---- MODULE Spec2Model ----
(***************************************************************************)
(* The "Geometry2D" readers of the X3D importer                            *)
(* (code/AssetLib/X3D/X3DImporter_Geometry2D.cpp): the node element graph, *)
(* the list of defined elements (NodeElement_List) and the eight readers   *)
(* readArc2D .. readTriangleSet2D.                                         *)
(*                                                                         *)
(* Angles are integers in quarter turns (1 = pi/2, 4 = 2*pi).  A point of  *)
(* an arc is kept symbolically as [a, r]: radius r at angle a, a in units  *)
(* of a quarter turn divided by the number of segments.  Points read from  *)
(* attributes are [x, y, z] with integer coordinates.                      *)
(***************************************************************************)
EXTENDS Integers, Sequences, FiniteSets, TLC

VARIABLES
    elems,              \* every X3DNodeElementBase allocated so far, by address 1..Len
    NodeElement_List,   \* X3DImporter::NodeElement_List: addresses, in insertion order
    mNodeElementCur,    \* X3DImporter::mNodeElementCur: the element being filled
    pc,                 \* "run", "failed" (an exception left the reader), "crashed"
    calls,              \* number of reader calls made
    last                \* the last reader call: its inputs and its outcome

vars == <<elems, NodeElement_List, mNodeElementCur, pc, calls, last>>

----------------------------------------------------------------------------
(* Bounds and program constants *)

\* reader calls explored under Spec
MaxCalls == 2
\* reader calls explored under SpecGeom
MaxGeomCalls == 1
\* the literal 10 every reader passes to make_arc2D as the number of segments
NumSeg == 10
\* 2*pi in quarter turns (AI_MATH_TWO_PI_F)
TwoPi == 4
\* pi/2 in quarter turns (AI_MATH_HALF_PI_F)
HalfPi == 1

----------------------------------------------------------------------------
(* Points *)

Origin == [x |-> 0, y |-> 0, z |-> 0]

\* what an element read through an iterator at or past end() holds when the
\* read does not trap
GarbagePoint == [garbage |-> TRUE]

\* aiVector3D(it2->x, it2->y, 0)
Vec3(p) == [x |-> p.x, y |-> p.y, z |-> 0]

\* the point of radius r at angle a; every angle gives the origin when r = 0
make_point2D(a, r) == IF r = 0 THEN Origin ELSE [a |-> a, r |-> r]

\* the sweep of an arc: endAngle - startAngle brought into (0, 2*pi]
Sweep(startAngle, endAngle) == ((endAngle - startAngle - 1) % TwoPi) + 1

\* the points of the arc, counterclockwise from startAngle; a full circle
\* holds each of its points once
make_arc2D(startAngle, endAngle, radius, numSegments) ==
    LET sweep == Sweep(startAngle, endAngle)
        n     == IF sweep = TwoPi THEN numSegments ELSE numSegments + 1
    IN  [k \in 1..n |-> make_point2D(startAngle * numSegments + (k - 1) * sweep, radius)]

\* the closed line set of a point list: (P0,P1), (P1,P2), ..., (Pn-1,P0)
extend_point_to_line(pts) ==
    [i \in 1..(2 * Len(pts)) |->
        IF i % 2 = 1 THEN pts[(i + 1) \div 2]
        ELSE pts[(((i \div 2)) % Len(pts)) + 1]]

\* std::list<aiVector2D> -> std::list<aiVector3D>
Lift(pts2) == [i \in 1..Len(pts2) |-> Vec3(pts2[i])]

----------------------------------------------------------------------------
(* Elements *)

ENET == {"Arc2D", "ArcClose2D", "Circle2D", "Disk2D", "Polyline2D",
         "Polypoint2D", "Rectangle2D", "TriangleSet2D"}

\* the DEF name is never stored in the element
Geometry2D_NoID(type, def, vertices, numIndices, solid) ==
    [Type |-> type, ID |-> "", Parent |-> mNodeElementCur, Children |-> <<>>,
     Vertices |-> vertices, NumIndices |-> numIndices, Solid |-> solid]

\* the element is constructed with no parent
Geometry2D_NoParent(type, def, vertices, numIndices, solid) ==
    [Type |-> type, ID |-> def, Parent |-> 0, Children |-> <<>>,
     Vertices |-> vertices, NumIndices |-> numIndices, Solid |-> solid]

\* X3DNodeElementGeometry2D(type, parent), then the reader's assignments
Geometry2D(type, def, vertices, numIndices, solid) ==
    [Type |-> type, ID |-> def, Parent |-> mNodeElementCur, Children |-> <<>>,
     Vertices |-> vertices, NumIndices |-> numIndices, Solid |-> solid]

\* a grouping element, made by readers outside this file
GroupElem(parent) ==
    [Type |-> "Group", ID |-> "", Parent |-> parent, Children |-> <<>>,
     Vertices |-> <<>>, NumIndices |-> 0, Solid |-> FALSE]

\* an entry of Children: the element and whether this entry owns it
Owned(ne) == [ne |-> ne, own |-> TRUE]
Alias(ne) == [ne |-> ne, own |-> FALSE]

NoCall == [op |-> "none", def |-> "", use |-> "", empty |-> TRUE, args |-> <<>>,
           res |-> "none", ne |-> 0]

Call(op, def, use, empty, args, res, ne) ==
    [op |-> op, def |-> def, use |-> use, empty |-> empty, args |-> args,
     res |-> res, ne |-> ne]

\* the scene root (1) with one open group (2) below it
Init ==
    /\ elems = <<[GroupElem(0) EXCEPT !.Children = <<Owned(2)>>], GroupElem(1)>>
    /\ NodeElement_List = <<1, 2>>
    /\ mNodeElementCur = 1
    /\ pc = "run"
    /\ calls = 0
    /\ last = NoCall

----------------------------------------------------------------------------
(* What every reader does with the element it made or found *)

\* the throw comes after the push to Children: the element made by new stays
\* under the current element
Throw_AfterAttach(op, def, use, empty, args, exc, leaked) ==
    /\ elems' = IF leaked = <<>> THEN elems
                ELSE [(elems \o leaked) EXCEPT ![mNodeElementCur].Children =
                                                    Append(@, Owned(Len(elems) + 1))]
    /\ pc' = "failed"
    /\ calls' = calls + 1
    /\ last' = Call(op, def, use, empty, args, exc, 0)
    /\ UNCHANGED <<NodeElement_List, mNodeElementCur>>

\* an exception leaves the reader: the import stops; an element made by new
\* before the throw (leaked) stays allocated, unreferenced
Throw(op, def, use, empty, args, exc, leaked) ==
    /\ elems' = elems \o leaked
    /\ pc' = "failed"
    /\ calls' = calls + 1
    /\ last' = Call(op, def, use, empty, args, exc, 0)
    /\ UNCHANGED <<NodeElement_List, mNodeElementCur>>

\* the first element of NodeElement_List with this name and type, 0 when none
FindNodeElement(pName, pType) ==
    LET hits == {i \in 1..Len(NodeElement_List) :
                    /\ elems[NodeElement_List[i]].ID = pName
                    /\ elems[NodeElement_List[i]].Type = pType}
    IN  IF hits = {} THEN 0
        ELSE NodeElement_List[CHOOSE i \in hits : \A j \in hits : i <= j]

\* USE: find the element of this type defined under the name and put the
\* element itself, not owned, at the current position
MACRO_USE_CHECKANDAPPLY(op, def, use, empty, args, pType) ==
    LET pNE == FindNodeElement(use, pType)
    IN  IF pNE = 0
        THEN Throw(op, def, use, empty, args, "USE_NotFound", <<>>)
        ELSE /\ elems' = [elems EXCEPT ![mNodeElementCur].Children = Append(@, Alias(pNE))]
             /\ pc' = "run"
             /\ calls' = calls + 1
             /\ last' = Call(op, def, use, empty, args, "ok", pNE)
             /\ UNCHANGED <<NodeElement_List, mNodeElementCur>>

\* metadata children of the source node are read with the new element open;
\* this is what puts the element under the current one
childrenReadMetadata(es, ne) ==
    [es EXCEPT ![mNodeElementCur].Children = Append(@, Owned(ne))]

\* the push to NodeElement_List sits in the else branch: an element whose
\* source node has content is never listed
AttachAndRegister_ElseOnly(op, def, empty, args, node) ==
    LET ne == Len(elems) + 1
        es == Append(elems, node)
    IN  /\ elems' = [es EXCEPT ![mNodeElementCur].Children = Append(@, Owned(ne))]
        /\ NodeElement_List' = IF empty THEN Append(NodeElement_List, ne)
                               ELSE NodeElement_List
        /\ pc' = "run"
        /\ calls' = calls + 1
        /\ last' = Call(op, def, "", empty, args, "ok", ne)
        /\ UNCHANGED mNodeElementCur

\* the end of every definition path: the element made by new is put under the
\* current element, at once or by childrenReadMetadata, and then pushed to
\* NodeElement_List
AttachAndRegister(op, def, empty, args, node) ==
    LET ne == Len(elems) + 1
        es == Append(elems, node)
    IN  /\ elems' = IF ~empty
                    THEN childrenReadMetadata(es, ne)
                    ELSE [es EXCEPT ![mNodeElementCur].Children = Append(@, Owned(ne))]
        /\ NodeElement_List' = Append(NodeElement_List, ne)
        /\ pc' = "run"
        /\ calls' = calls + 1
        /\ last' = Call(op, def, "", empty, args, "ok", ne)
        /\ UNCHANGED mNodeElementCur

\* a read through an iterator at end() trapped (checked iterators): the
\* process is gone; the element made by new was not yet attached
Crash(op, def, empty, args, node) ==
    /\ elems' = Append(elems, node)
    /\ pc' = "crashed"
    /\ calls' = calls + 1
    /\ last' = Call(op, def, "", empty, args, "crash", 0)
    /\ UNCHANGED <<NodeElement_List, mNodeElementCur>>

----------------------------------------------------------------------------
(* The readers *)

readArc2D(def, use, empty, startAngle, endAngle, radius) ==
    LET args == <<startAngle, endAngle, radius>> IN
    /\ pc = "run"
    /\ IF use # ""
       THEN MACRO_USE_CHECKANDAPPLY("Arc2D", def, use, empty, args, "Arc2D")
       ELSE LET tlist == make_arc2D(startAngle, endAngle, radius, NumSeg)
            IN  AttachAndRegister("Arc2D", def, empty, args,
                    Geometry2D("Arc2D", def, extend_point_to_line(tlist), 2, FALSE))

\* closureType == "PIE" || closureType == "\"PIE\""
IsPie(closureType) == closureType \in {"PIE", "\"PIE\""}
\* the else branch tests for PIE once more: every other value passes as CHORD
IsChord_NotPie(closureType) == closureType # "PIE" /\ closureType # "\"PIE\""

IsChord(closureType) == closureType \in {"CHORD", "\"CHORD\""}

\* std::fabs
Fabs(x) == IF x < 0 THEN -x ELSE x

\* > in place of >=
IsCircle_Strict(startAngle, endAngle) ==
    (Fabs(endAngle - startAngle) > TwoPi) \/ (endAngle = startAngle)

\* (std::fabs(endAngle - startAngle) >= AI_MATH_TWO_PI_F) || (endAngle == startAngle)
IsCircle(startAngle, endAngle) ==
    (Fabs(endAngle - startAngle) >= TwoPi) \/ (endAngle = startAngle)

\* the centre is added after the repeat of the first point
CloseArc_Swapped(arc, closureType) ==
    LET vlist == Append(arc, arc[1])
    IN  IF IsPie(closureType) THEN Append(vlist, Origin) ELSE vlist

\* the chord or the two radial lines added to an arc that is no circle
CloseArc(arc, closureType) ==
    LET vlist == IF IsPie(closureType) THEN Append(arc, Origin) ELSE arc
    IN  Append(vlist, vlist[1])

readArcClose2D(def, use, empty, closureType, startAngle, endAngle, radius, solid) ==
    LET args == <<closureType, startAngle, endAngle, radius, solid>> IN
    /\ pc = "run"
    /\ IF use # ""
       THEN MACRO_USE_CHECKANDAPPLY("ArcClose2D", def, use, empty, args, "ArcClose2D")
       ELSE LET arc == make_arc2D(startAngle, endAngle, radius, NumSeg)
                circle == IsCircle(startAngle, endAngle)
                vlist == IF circle THEN arc ELSE CloseArc(arc, closureType)
            IN  IF ~circle /\ ~IsPie(closureType) /\ ~IsChord(closureType)
                THEN Throw("ArcClose2D", def, use, empty, args,
                           "IncorrectAttrValue(ArcClose2D,closureType)",
                           <<Geometry2D("ArcClose2D", def, arc, 0, solid)>>)
                ELSE AttachAndRegister("ArcClose2D", def, empty, args,
                        Geometry2D("ArcClose2D", def, vlist, Len(vlist), solid))

\* USE looks for an Arc2D
readCircle2D_AsArc(def, use, empty, radius) ==
    LET args == <<radius>> IN
    /\ pc = "run"
    /\ IF use # ""
       THEN MACRO_USE_CHECKANDAPPLY("Circle2D", def, use, empty, args, "Arc2D")
       ELSE LET tlist == make_arc2D(0, 0, radius, NumSeg)
            IN  AttachAndRegister("Circle2D", def, empty, args,
                    Geometry2D("Circle2D", def, extend_point_to_line(tlist), 2, FALSE))

readCircle2D(def, use, empty, radius) ==
    LET args == <<radius>> IN
    /\ pc = "run"
    /\ IF use # ""
       THEN MACRO_USE_CHECKANDAPPLY("Circle2D", def, use, empty, args, "Circle2D")
       ELSE LET tlist == make_arc2D(0, 0, radius, NumSeg)
            IN  AttachAndRegister("Circle2D", def, empty, args,
                    Geometry2D("Circle2D", def, extend_point_to_line(tlist), 2, FALSE))

\* what *it reads once it has run to end(): some value, here either bytes
\* that are no point of the list or bytes that equal its first point
PastEnd(list) == {GarbagePoint, list[1]}

\* the closing quad lacks its 4th point
QuadList_ShortLast(tlist_i, tlist_o, g_o, g_i) ==
    LET n  == Len(tlist_i)
        at(list, k, g) == IF k <= Len(list) THEN list[k] ELSE g
        quad(i) == <<tlist_i[i], at(tlist_o, i, g_o), at(tlist_o, i + 1, g_o),
                     at(tlist_i, i + 1, g_i)>>
        loop == [k \in 1..(4 * n) |-> quad(((k - 1) \div 4) + 1)[((k - 1) % 4) + 1]]
    IN  loop \o <<tlist_i[n], tlist_o[Len(tlist_o)], tlist_o[1]>>

\* the quad list readDisk2D builds: one quad per inner point, the last of them
\* reading both lists at end() (g_o, g_i), then the closing quad
QuadList(tlist_i, tlist_o, g_o, g_i) ==
    LET n  == Len(tlist_i)
        at(list, k, g) == IF k <= Len(list) THEN list[k] ELSE g
        quad(i) == <<tlist_i[i], at(tlist_o, i, g_o), at(tlist_o, i + 1, g_o),
                     at(tlist_i, i + 1, g_i)>>
        loop == [k \in 1..(4 * n) |-> quad(((k - 1) \div 4) + 1)[((k - 1) % 4) + 1]]
    IN  loop \o <<tlist_i[n], tlist_o[Len(tlist_o)], tlist_o[1], tlist_i[1]>>

readDisk2D(def, use, empty, innerRadius, outerRadius, solid) ==
    LET args == <<innerRadius, outerRadius, solid>> IN
    /\ pc = "run"
    /\ IF use # ""
       THEN MACRO_USE_CHECKANDAPPLY("Disk2D", def, use, empty, args, "Disk2D")
       ELSE IF innerRadius > outerRadius
       THEN Throw("Disk2D", def, use, empty, args,
                  "IncorrectAttrValue(Disk2D,innerRadius)", <<>>)
       ELSE LET tlist_o == make_arc2D(0, 0, outerRadius, NumSeg)
                tlist_i == make_arc2D(0, 0, innerRadius, NumSeg)
                node(vertices, numIndices) ==
                    Geometry2D("Disk2D", def, vertices, numIndices, solid)
            IN  IF innerRadius = 0
                THEN AttachAndRegister("Disk2D", def, empty, args,
                                       node(tlist_o, Len(tlist_o)))
                ELSE IF innerRadius = outerRadius
                THEN AttachAndRegister("Disk2D", def, empty, args,
                                       node(extend_point_to_line(tlist_o), 2))
                ELSE IF Len(tlist_i) < 2
                THEN Throw("Disk2D", def, use, empty, args,
                           "DeadlyImportError(Disk2D)", <<node(<<>>, 0)>>)
                ELSE \/ \E g_o \in PastEnd(tlist_o), g_i \in PastEnd(tlist_i) :
                            AttachAndRegister("Disk2D", def, empty, args,
                                node(QuadList(tlist_i, tlist_o, g_o, g_i), 4))
                     \/ Crash("Disk2D", def, empty, args, node(<<>>, 0))

readPolyline2D(def, use, empty, lineSegments) ==
    LET args == <<lineSegments>> IN
    /\ pc = "run"
    /\ IF use # ""
       THEN MACRO_USE_CHECKANDAPPLY("Polyline2D", def, use, empty, args, "Polyline2D")
       ELSE LET tlist == Lift(lineSegments)
            IN  IF Len(tlist) < 2
                THEN Throw("Polyline2D", def, use, empty, args,
                           "DeadlyImportError(extend_point_to_line)",
                           <<Geometry2D("Polyline2D", def, <<>>, 0, FALSE)>>)
                ELSE AttachAndRegister("Polyline2D", def, empty, args,
                        Geometry2D("Polyline2D", def, extend_point_to_line(tlist), 2, FALSE))

\* USE looks for a Polyline2D
readPolypoint2D_AsPolyline(def, use, empty, point) ==
    LET args == <<point>> IN
    /\ pc = "run"
    /\ IF use # ""
       THEN MACRO_USE_CHECKANDAPPLY("Polypoint2D", def, use, empty, args, "Polyline2D")
       ELSE AttachAndRegister("Polypoint2D", def, empty, args,
                Geometry2D("Polypoint2D", def, Lift(point), 1, FALSE))

readPolypoint2D(def, use, empty, point) ==
    LET args == <<point>> IN
    /\ pc = "run"
    /\ IF use # ""
       THEN MACRO_USE_CHECKANDAPPLY("Polypoint2D", def, use, empty, args, "Polypoint2D")
       ELSE AttachAndRegister("Polypoint2D", def, empty, args,
                Geometry2D("Polypoint2D", def, Lift(point), 1, FALSE))

readRectangle2D(def, use, empty, size, solid) ==
    LET args == <<size, solid>> IN
    /\ pc = "run"
    /\ IF use # ""
       THEN MACRO_USE_CHECKANDAPPLY("Rectangle2D", def, use, empty, args, "Rectangle2D")
       ELSE LET x1 == -(size.x \div 2)
                x2 == size.x \div 2
                y1 == -(size.y \div 2)
                y2 == size.y \div 2
                vlist == <<[x |-> x2, y |-> y1, z |-> 0], [x |-> x2, y |-> y2, z |-> 0],
                           [x |-> x1, y |-> y2, z |-> 0], [x |-> x1, y |-> y1, z |-> 0]>>
            IN  AttachAndRegister("Rectangle2D", def, empty, args,
                    Geometry2D("Rectangle2D", def, vlist, 4, solid))

\* "fewer than 3" in place of "not a multiple of 3"
NotTriangles_Fewer(vertices) == Len(vertices) < 3

\* vertices.size() % 3
NotTriangles(vertices) == Len(vertices) % 3 # 0

readTriangleSet2D(def, use, empty, vertices, solid) ==
    LET args == <<vertices, solid>> IN
    /\ pc = "run"
    /\ IF use # ""
       THEN MACRO_USE_CHECKANDAPPLY("TriangleSet2D", def, use, empty, args, "TriangleSet2D")
       ELSE IF NotTriangles(vertices)
       THEN Throw("TriangleSet2D", def, use, empty, args,
                  "DeadlyImportError(TriangleSet2D)", <<>>)
       ELSE AttachAndRegister("TriangleSet2D", def, empty, args,
                Geometry2D("TriangleSet2D", def, Lift(vertices), 3, solid))

\* the traversal opens or leaves the group: the current element changes
ParseHelper_Node_EnterExit ==
    /\ pc = "run"
    /\ mNodeElementCur' = IF mNodeElementCur = 1 THEN 2 ELSE 1
    /\ UNCHANGED <<elems, NodeElement_List, pc, calls, last>>

----------------------------------------------------------------------------
(* The attribute values explored *)

\* DEF and USE names; "" is an absent attribute
Names == {"a"}
DefUse == {<<"", "", TRUE>>, <<"", "", FALSE>>} \cup
          {<<n, "", e>> : n \in Names, e \in BOOLEAN} \cup
          {<<"", n, TRUE>> : n \in Names}

\* 2D points of the list attributes: the first k points of one list
Points2 == <<[x |-> 0, y |-> 0], [x |-> 2, y |-> 0], [x |-> 0, y |-> 2],
             [x |-> 2, y |-> 2], [x |-> 4, y |-> 0], [x |-> 0, y |-> 4]>>
PointList(k) == SubSeq(Points2, 1, k)

Angles == {-TwoPi, 0, HalfPi, TwoPi}
ClosureTypes == {"PIE", "CHORD", "\"PIE\"", "\"CHORD\"", "WEDGE"}
Radii == {0, 1, 2}
Sizes == {[x |-> 2, y |-> 2], [x |-> 4, y |-> 2]}
ListLengths == {0, 1, 2, 3, 4, 6}

----------------------------------------------------------------------------
(* Spec: the readers called with their default attribute values, DEF, USE *)
(* and nested content varying                                             *)

Arc2D ==
    /\ calls < MaxCalls
    /\ \E du \in DefUse : readArc2D(du[1], du[2], du[3], 0, HalfPi, 1)

ArcClose2D ==
    /\ calls < MaxCalls
    /\ \E du \in DefUse : readArcClose2D(du[1], du[2], du[3], "PIE", 0, HalfPi, 1, FALSE)

Circle2D ==
    /\ calls < MaxCalls
    /\ \E du \in DefUse : readCircle2D(du[1], du[2], du[3], 1)

Disk2D ==
    /\ calls < MaxCalls
    /\ \E du \in DefUse : readDisk2D(du[1], du[2], du[3], 0, 1, FALSE)

Polyline2D ==
    /\ calls < MaxCalls
    /\ \E du \in DefUse : readPolyline2D(du[1], du[2], du[3], PointList(2))

Polypoint2D ==
    /\ calls < MaxCalls
    /\ \E du \in DefUse : readPolypoint2D(du[1], du[2], du[3], PointList(1))

Rectangle2D ==
    /\ calls < MaxCalls
    /\ \E du \in DefUse : readRectangle2D(du[1], du[2], du[3], [x |-> 2, y |-> 2], FALSE)

TriangleSet2D ==
    /\ calls < MaxCalls
    /\ \E du \in DefUse : readTriangleSet2D(du[1], du[2], du[3], PointList(3), FALSE)

Next ==
    \/ Arc2D
    \/ ArcClose2D
    \/ Circle2D
    \/ Disk2D
    \/ Polyline2D
    \/ Polypoint2D
    \/ Rectangle2D
    \/ TriangleSet2D
    \/ ParseHelper_Node_EnterExit

Spec == Init /\ [][Next]_vars

----------------------------------------------------------------------------
(* SpecGeom: the definition paths with the geometric attributes varying *)

Defs == {<<"", TRUE>>, <<"a", FALSE>>}

GeomArc2D ==
    /\ calls < MaxGeomCalls
    /\ \E d \in Defs, s \in Angles, e \in Angles, r \in {1, 2} :
            readArc2D(d[1], "", d[2], s, e, r)

GeomArcClose2D ==
    /\ calls < MaxGeomCalls
    /\ \E d \in Defs, c \in ClosureTypes, s \in Angles, e \in Angles, b \in BOOLEAN :
            readArcClose2D(d[1], "", d[2], c, s, e, 1, b)

GeomCircle2D ==
    /\ calls < MaxGeomCalls
    /\ \E d \in Defs, r \in {1, 2} : readCircle2D(d[1], "", d[2], r)

GeomDisk2D ==
    /\ calls < MaxGeomCalls
    /\ \E d \in Defs, i \in Radii, o \in Radii, b \in BOOLEAN :
            readDisk2D(d[1], "", d[2], i, o, b)

GeomPolyline2D ==
    /\ calls < MaxGeomCalls
    /\ \E d \in Defs, k \in ListLengths : readPolyline2D(d[1], "", d[2], PointList(k))

GeomPolypoint2D ==
    /\ calls < MaxGeomCalls
    /\ \E d \in Defs, k \in ListLengths : readPolypoint2D(d[1], "", d[2], PointList(k))

GeomRectangle2D ==
    /\ calls < MaxGeomCalls
    /\ \E d \in Defs, sz \in Sizes, b \in BOOLEAN : readRectangle2D(d[1], "", d[2], sz, b)

GeomTriangleSet2D ==
    /\ calls < MaxGeomCalls
    /\ \E d \in Defs, k \in ListLengths, b \in BOOLEAN :
            readTriangleSet2D(d[1], "", d[2], PointList(k), b)

NextGeom ==
    \/ GeomArc2D
    \/ GeomArcClose2D
    \/ GeomCircle2D
    \/ GeomDisk2D
    \/ GeomPolyline2D
    \/ GeomPolypoint2D
    \/ GeomRectangle2D
    \/ GeomTriangleSet2D

SpecGeom == Init /\ [][NextGeom]_vars

----------------------------------------------------------------------------
(* Properties *)

Registry == {NodeElement_List[i] : i \in 1..Len(NodeElement_List)}

\* a listed element of this type carries this name
Registered(name, type) ==
    \E ne \in Registry : elems[ne].ID = name /\ elems[ne].Type = type

\* the step is a reader call
ReaderCall == calls' = calls + 1
UseCall == ReaderCall /\ last'.use # ""
DefCall == ReaderCall /\ last'.use = ""

CurChildren == elems[mNodeElementCur].Children

\* the last call was a definition-path call of this reader
DefinedBy(op) == last.op = op /\ last.use = ""
LastNode == elems[last.ne]

\* C1: a reader of kind K called with USE=N while an element of kind K is
\* listed under N succeeds and puts a listed element of kind K named N, the
\* element itself, at the end of the current element's children; no element
\* is made, none is changed, and NodeElement_List stays as it was.
C1_UseAttachesTheDefinedNode ==
    [][(UseCall /\ Registered(last'.use, last'.op)) =>
            /\ last'.res = "ok"
            /\ last'.ne \in Registry
            /\ elems[last'.ne].Type = last'.op
            /\ elems[last'.ne].ID = last'.use
            /\ Len(elems') = Len(elems)
            /\ elems'[last'.ne] = elems[last'.ne]
            /\ Len(elems'[mNodeElementCur].Children) = Len(CurChildren) + 1
            /\ elems'[mNodeElementCur].Children[Len(CurChildren) + 1].ne = last'.ne
            /\ SubSeq(elems'[mNodeElementCur].Children, 1, Len(CurChildren)) = CurChildren
            /\ NodeElement_List' = NodeElement_List]_vars

\* a USE that succeeded at a position other than the one of the definition
C1_Witness ==
    /\ last.use # "" /\ last.res = "ok"
    /\ elems[last.ne].Parent # mNodeElementCur
    /\ Len(CurChildren) > 0
    /\ CurChildren[Len(CurChildren)] = Alias(last.ne)
    /\ \E i \in 1..Len(elems[elems[last.ne].Parent].Children) :
            elems[elems[last.ne].Parent].Children[i].ne = last.ne

\* C2: a reader call with USE=N succeeds exactly when an element of the
\* reader's own kind is already listed under N; otherwise (no element named N,
\* or only elements of another kind, or a definition that has not been read
\* yet) it fails with the USE-not-found error and the import stops.
C2_UseNeedsSameKindDefinition ==
    [][UseCall =>
            /\ (last'.res = "ok") <=> Registered(last'.use, last'.op)
            /\ ~Registered(last'.use, last'.op) =>
                    (last'.res = "USE_NotFound" /\ pc' = "failed")]_vars

\* a USE that failed although an element of another geometry kind has the name
C2_Witness ==
    /\ last.use # "" /\ last.res = "USE_NotFound"
    /\ \E ne \in Registry :
            elems[ne].ID = last.use /\ elems[ne].Type \in ENET \ {last.op}

\* C3: a definition-path call that completes appends the element it made,
\* once, at the end of NodeElement_List, whether the source node is empty or
\* has content; the entries already there keep their places.
C3_DefinitionRegistersOnce ==
    [][(DefCall /\ last'.res = "ok") =>
            /\ Len(elems') = Len(elems) + 1
            /\ last'.ne = Len(elems')
            /\ last'.ne \notin Registry
            /\ NodeElement_List' = Append(NodeElement_List, last'.ne)]_vars

\* a definition with nested content, listed last, after a definition on an
\* empty node
C3_Witness ==
    /\ last.use = "" /\ last.res = "ok" /\ ~last.empty
    /\ Len(NodeElement_List) = 4
    /\ NodeElement_List[4] = last.ne

\* the outer ring readDisk2D starts from
OuterRing == make_arc2D(0, 0, last.args[2], NumSeg)

\* C4: a readDisk2D definition that returns, called with innerRadius <=
\* outerRadius, has its topology chosen by the radii: innerRadius = 0 gives the
\* outer ring itself as one polygon (NumIndices = number of ring points);
\* innerRadius = outerRadius, not 0, gives the line set of the outer ring with
\* NumIndices 2; any other innerRadius gives NumIndices 4 and a vertex count
\* that is a multiple of 4.
C4_DiskTopologyByRadius ==
    (DefinedBy("Disk2D") /\ last.res = "ok" /\ last.args[1] <= last.args[2]) =>
        LET innerRadius == last.args[1]
            outerRadius == last.args[2]
        IN  /\ innerRadius = 0 =>
                    /\ LastNode.Vertices = OuterRing
                    /\ LastNode.NumIndices = Len(OuterRing)
            /\ (innerRadius # 0 /\ innerRadius = outerRadius) =>
                    /\ LastNode.Vertices = extend_point_to_line(OuterRing)
                    /\ LastNode.NumIndices = 2
            /\ (innerRadius # 0 /\ innerRadius # outerRadius) =>
                    /\ LastNode.NumIndices = 4
                    /\ Len(LastNode.Vertices) > 0
                    /\ Len(LastNode.Vertices) % 4 = 0

\* a disk with a hole was read
C4_Witness ==
    /\ DefinedBy("Disk2D") /\ last.res = "ok"
    /\ 0 < last.args[1] /\ last.args[1] < last.args[2]
    /\ LastNode.NumIndices = 4
    /\ last.ne \in Registry

\* the sequence without its i-th element
RemoveAt(seq, i) == SubSeq(seq, 1, i - 1) \o SubSeq(seq, i + 1, Len(seq))

\* the arc readArcClose2D starts from
ClosedArc == make_arc2D(last.args[2], last.args[3], last.args[4], NumSeg)
\* startAngle = endAngle or |endAngle - startAngle| >= 2*pi
FullCircle ==
    \/ last.args[2] = last.args[3]
    \/ last.args[3] - last.args[2] >= TwoPi
    \/ last.args[2] - last.args[3] >= TwoPi

\* C5: a readArcClose2D definition that returns holds exactly the arc points
\* when startAngle = endAngle or |endAngle - startAngle| >= 2*pi; otherwise
\* with PIE it holds the arc points and two more points, the origin and a
\* repeat of the first arc point, and with CHORD the arc points and one more
\* point, a repeat of the first arc point; NumIndices is always the number of
\* vertices.
C5_ArcCloseExtraPoints ==
    (DefinedBy("ArcClose2D") /\ last.res = "ok") =>
        LET v == LastNode.Vertices
        IN  /\ LastNode.NumIndices = Len(v)
            /\ FullCircle => v = ClosedArc
            /\ (~FullCircle /\ last.args[1] = "PIE") =>
                    /\ Len(v) = Len(ClosedArc) + 2
                    /\ \E i, j \in 1..Len(v) :
                            /\ i < j
                            /\ RemoveAt(RemoveAt(v, j), i) = ClosedArc
                            /\ {v[i], v[j]} = {Origin, ClosedArc[1]}
            /\ (~FullCircle /\ last.args[1] = "CHORD") =>
                    /\ Len(v) = Len(ClosedArc) + 1
                    /\ \E i \in 1..Len(v) :
                            RemoveAt(v, i) = ClosedArc /\ v[i] = ClosedArc[1]

\* a PIE over a quarter turn was read: the 11 arc points and two more
C5_Witness ==
    /\ DefinedBy("ArcClose2D") /\ last.res = "ok"
    /\ last.args[1] = "PIE" /\ last.args[2] = 0 /\ last.args[3] = HalfPi
    /\ Len(LastNode.Vertices) = NumSeg + 3

\* the closureType is none of PIE and CHORD, in either spelling
OtherClosure == last.args[1] \notin {"PIE", "CHORD", "\"PIE\"", "\"CHORD\""}
ClosureError == "IncorrectAttrValue(ArcClose2D,closureType)"
\* the element allocated last is in no list and under no element
LastAllocatedUnreferenced ==
    /\ Len(elems) \notin Registry
    /\ \A p \in 1..Len(elems) : \A i \in 1..Len(elems[p].Children) :
            elems[p].Children[i].ne # Len(elems)

\* C6 as stated: a readArcClose2D definition with a closureType that is
\* neither PIE nor CHORD raises the closureType error whatever the angles are.
C6_Original_ErrorForEveryAngles ==
    (DefinedBy("ArcClose2D") /\ OtherClosure) => last.res = ClosureError

\* C6: a readArcClose2D definition with a closureType that is neither PIE nor
\* CHORD (plain or spelt with its quotes) raises the closureType error exactly
\* when startAngle # endAngle and |endAngle - startAngle| < 2*pi, and then the
\* element it made is neither listed nor attached; with equal angles or a
\* difference of 2*pi or more the closureType is not looked at and the
\* element is listed.
C6_ErrorUnlessCircle ==
    (DefinedBy("ArcClose2D") /\ OtherClosure) =>
        /\ ~FullCircle => (last.res = ClosureError /\ pc = "failed"
                           /\ LastAllocatedUnreferenced)
        /\ FullCircle => (last.res = "ok" /\ last.ne \in Registry
                          /\ LastNode.Vertices = ClosedArc)

\* WEDGE was refused on a quarter turn
C6_Witness ==
    /\ DefinedBy("ArcClose2D") /\ last.args[1] = "WEDGE"
    /\ last.args[2] = 0 /\ last.args[3] = HalfPi
    /\ last.res = ClosureError

\* C10 as stated: PIE on an arc that is no circle gives the origin first,
\* then the arc points, then the first arc point again.
C10_Original_OriginFirst ==
    (DefinedBy("ArcClose2D") /\ last.res = "ok" /\ last.args[1] = "PIE" /\ ~FullCircle) =>
        LastNode.Vertices = <<Origin>> \o ClosedArc \o <<ClosedArc[1]>>

\* C10: PIE on an arc that is no circle gives the arc points in sweep order,
\* then the origin, then the first arc point again.
C10_OriginAfterArc ==
    (DefinedBy("ArcClose2D") /\ last.res = "ok" /\ last.args[1] = "PIE" /\ ~FullCircle) =>
        LastNode.Vertices = ClosedArc \o <<Origin, ClosedArc[1]>>

\* a PIE whose first vertex is an arc point and whose last but one is the origin
C10_Witness ==
    /\ DefinedBy("ArcClose2D") /\ last.res = "ok" /\ last.args[1] = "PIE" /\ ~FullCircle
    /\ LastNode.Vertices[1] # Origin
    /\ LastNode.Vertices[Len(LastNode.Vertices) - 1] = Origin

\* the listed elements that carry this name
Named(list, es, name) == {i \in 1..Len(list) : es[list[i]].ID = name}

\* C7 as stated: no two entries of NodeElement_List carry the same non-empty ID.
C7_Original_UniqueIds ==
    \A i, j \in 1..Len(NodeElement_List) :
        (i # j /\ elems[NodeElement_List[i]].ID # "") =>
            elems[NodeElement_List[i]].ID # elems[NodeElement_List[j]].ID

\* C7: the readers do not compare a DEF name with the names already listed:
\* every definition-path call with DEF=N that completes lists one more element
\* with ID N, also when an element named N is listed already.
C7_DefAlwaysListsTheName ==
    [][(DefCall /\ last'.res = "ok" /\ last'.def # "") =>
            /\ elems'[last'.ne].ID = last'.def
            /\ Cardinality(Named(NodeElement_List', elems', last'.def)) =
                    Cardinality(Named(NodeElement_List, elems, last'.def)) + 1]_vars

\* two listed elements share a DEF name
C7_Witness ==
    /\ last.use = "" /\ last.def # "" /\ last.res = "ok"
    /\ Cardinality(Named(NodeElement_List, elems, last.def)) = 2

\* the places (parent, index) whose entry owns ne
Owners(ne) ==
    {pi \in UNION {{<<p, i>> : i \in 1..Len(elems[p].Children)} : p \in 1..Len(elems)} :
        elems[pi[1]].Children[pi[2]] = Owned(ne)}

\* C8: every element below the root is owned from exactly one place, one
\* entry of the children of the element its Parent names; an entry added by
\* USE owns nothing.
C8_OwnedOnceByParent ==
    \A ne \in 2..Len(elems) :
        /\ Cardinality(Owners(ne)) = 1
        /\ \A pi \in Owners(ne) : pi[1] = elems[ne].Parent

\* an element owned under one parent and referenced by USE under the other
C8_Witness ==
    \E ne \in 3..Len(elems) : \E p \in 1..Len(elems) : \E i \in 1..Len(elems[p].Children) :
        /\ elems[p].Children[i] = Alias(ne)
        /\ p # elems[ne].Parent
        /\ Cardinality(Owners(ne)) = 1

\* C9: every listed geometry element has a vertex count that fits its
\* NumIndices: Arc2D, Circle2D, Polyline2D 2 and an even count; Polypoint2D 1;
\* Rectangle2D 4 and 4 vertices; TriangleSet2D 3 and a multiple of 3;
\* ArcClose2D the vertex count itself; Disk2D the vertex count itself, or 2,
\* or 4, the count being a multiple of it.
C9_VerticesFitNumIndices ==
    \A ne \in Registry :
        LET e == elems[ne]
            n == Len(e.Vertices)
        IN  /\ e.Type \in {"Arc2D", "Circle2D", "Polyline2D"} =>
                    (e.NumIndices = 2 /\ n % 2 = 0)
            /\ e.Type = "Polypoint2D" => e.NumIndices = 1
            /\ e.Type = "Rectangle2D" => (e.NumIndices = 4 /\ n = 4)
            /\ e.Type = "TriangleSet2D" => (e.NumIndices = 3 /\ n % 3 = 0)
            /\ e.Type = "ArcClose2D" => e.NumIndices = n
            /\ e.Type = "Disk2D" =>
                    /\ e.NumIndices \in {n, 2, 4}
                    /\ e.NumIndices # n => n % e.NumIndices = 0

\* a TriangleSet2D of 6 points is listed with its 6 vertices
C9_Witness ==
    \E ne \in Registry :
        /\ elems[ne].Type = "TriangleSet2D"
        /\ Len(elems[ne].Vertices) = 6
        /\ elems[ne].NumIndices = 3

\* the inner ring readDisk2D builds for a disk with a hole
InnerRing == make_arc2D(0, 0, last.args[1], NumSeg)

\* readDisk2D took the branch that builds the quad list
QuadBranch ==
    /\ DefinedBy("Disk2D")
    /\ last.args[1] <= last.args[2]
    /\ last.args[1] # 0
    /\ last.args[1] # last.args[2]

\* one quad per ring position, the last one wrapping to the first position
WrappedQuads(inner, outer) ==
    LET n == Len(inner)
        nxt(i) == (i % n) + 1
        quad(i) == <<inner[i], outer[i], outer[nxt(i)], inner[nxt(i)]>>
    IN  [k \in 1..(4 * n) |-> quad(((k - 1) \div 4) + 1)[((k - 1) % 4) + 1]]

\* C11: readDisk2D on the quad branch, the two rings having n >= 2 points
\* each, returns n quads, 4n vertices: quad i is (inner[i], outer[i],
\* outer[i+1], inner[i+1]) with the indices taken modulo n; every vertex is a
\* point of a ring and no list is read at or past its end.
C11_QuadsWrapModuloN ==
    (QuadBranch /\ Len(InnerRing) >= 2 /\ Len(InnerRing) = Len(OuterRing)) =>
        /\ last.res = "ok"
        /\ Len(LastNode.Vertices) = 4 * Len(InnerRing)
        /\ LastNode.Vertices = WrappedQuads(InnerRing, OuterRing)
        /\ \A k \in 1..Len(LastNode.Vertices) :
                \E i \in 1..Len(InnerRing) :
                    LastNode.Vertices[k] \in {InnerRing[i], OuterRing[i]}

----------------------------------------------------------------------------
(* SpecFail: the definition paths of SpecGeom and the USE path of every reader *)

GeomUse ==
    /\ calls < MaxGeomCalls
    /\ \E n \in Names :
        \/ readArc2D("", n, TRUE, 0, HalfPi, 1)
        \/ readArcClose2D("", n, TRUE, "PIE", 0, HalfPi, 1, FALSE)
        \/ readCircle2D("", n, TRUE, 1)
        \/ readDisk2D("", n, TRUE, 0, 1, FALSE)
        \/ readPolyline2D("", n, TRUE, PointList(2))
        \/ readPolypoint2D("", n, TRUE, PointList(1))
        \/ readRectangle2D("", n, TRUE, [x |-> 2, y |-> 2], FALSE)
        \/ readTriangleSet2D("", n, TRUE, PointList(3), FALSE)

NextFail ==
    \/ NextGeom
    \/ GeomUse

SpecFail == Init /\ [][NextFail]_vars

\* the exceptions a reader raises
Exceptions == {"USE_NotFound", "IncorrectAttrValue(ArcClose2D,closureType)",
               "IncorrectAttrValue(Disk2D,innerRadius)", "DeadlyImportError(Disk2D)",
               "DeadlyImportError(TriangleSet2D)",
               "DeadlyImportError(extend_point_to_line)"}

\* C12: a reader call that raises (Disk2D with innerRadius > outerRadius or a
\* short inner ring, TriangleSet2D with a vertex count that is no multiple of
\* 3, ArcClose2D with a bad closureType, USE of a name not listed under the
\* reader's kind) leaves NodeElement_List and the children of the current
\* element, and of every other element, as they were: an element made before
\* the throw is neither listed nor attached.
C12_FailedCallChangesNothing ==
    [][(ReaderCall /\ last'.res \in Exceptions) =>
            /\ pc' = "failed"
            /\ NodeElement_List' = NodeElement_List
            /\ elems'[mNodeElementCur].Children = CurChildren
            /\ mNodeElementCur' = mNodeElementCur
            /\ SubSeq(elems', 1, Len(elems)) = elems
            /\ \A ne \in (Len(elems) + 1)..Len(elems') :
                    /\ \A i \in 1..Len(NodeElement_List') : NodeElement_List'[i] # ne
                    /\ \A p \in 1..Len(elems') : \A i \in 1..Len(elems'[p].Children) :
                            elems'[p].Children[i].ne # ne]_vars

\* an ArcClose2D was refused after its element had been made by new
C12_Witness ==
    /\ pc = "failed"
    /\ last.res \in Exceptions
    /\ last.op = "ArcClose2D"
    /\ Len(elems) = Len(NodeElement_List) + 1
    /\ elems[Len(elems)].Type = "ArcClose2D"

====
